---- MODULE Spec2Model ----
(***************************************************************************)
(* backup-rs (src/main.rs): one-way mirroring of a SOURCE directory tree   *)
(* into a DESTINATION tree.  main() runs remove_removed (prune pass) and   *)
(* then backup (mirror pass).  The file system is modelled as a map from   *)
(* absolute paths to nodes; every std::fs call the program makes is an     *)
(* operator on that map, with the symlink-following behaviour of the call. *)
(***************************************************************************)
EXTENDS Integers, Sequences, FiniteSets, TLC

\* ------------------------------------------------------------------ bounds
MaxSize == 2      \* regular files have sizes 1..MaxSize
MaxTime == 2      \* time stamps are 0..MaxTime
MaxRuns == 2      \* the program is invoked at most MaxRuns times in a row

Sizes == 1..MaxSize
Times == 0..MaxTime
\* st_size the platform reports for a directory: never a size of the
\* bounded file domain
DirSize == MaxSize + 1
\* the wall clock when the first run starts; MaxTime is still in the future
ClockStart == MaxTime - 1

\* ------------------------------------------------------------ file system
\* the two command line arguments and a directory that belongs to neither
SRoot == <<"S">>
DRoot == <<"D">>
ORoot == <<"O">>
\* the dangling symlink target: a path at which nothing ever exists
Nowhere == <<"X">>

Names == {"a", "b"}

Paths ==
  { SRoot, <<"S", "a">>, <<"S", "b">>, <<"S", "a", "a">>,
    DRoot, <<"D", "a">>, <<"D", "b">>, <<"D", "a", "a">>,
    <<"D", "a", "a", "a">>,
    ORoot, <<"O", "a">> }

\* relative paths paired between the two trees
RelPaths == { <<"a">>, <<"b">>, <<"a", "a">> }

Targets == { ORoot, <<"O", "a">>, Nowhere }

None  == [kind |-> "none",  size |-> 0, mtime |-> 0, target |-> <<>>]
Dir   == [kind |-> "dir",   size |-> DirSize, mtime |-> 0, target |-> <<>>]
Inacc == [kind |-> "inacc", size |-> 0, mtime |-> 0, target |-> <<>>]
File(s, t) == [kind |-> "file", size |-> s, mtime |-> t, target |-> <<>>]
Link(tg)   == [kind |-> "link", size |-> 0, mtime |-> 0, target |-> tg]

Files == { File(s, t) : s \in Sizes, t \in Times }
Links == { Link(tg) : tg \in Targets }

Fail == <<>>
Front(p) == SubSeq(p, 1, Len(p) - 1)
Last(p) == p[Len(p)]
IsPrefix(p, q) == Len(p) <= Len(q) /\ SubSeq(q, 1, Len(p)) = p

Node(f, p) == IF p \in Paths THEN f[p] ELSE None

\* every path a call can name
Places ==
  Paths \cup {Nowhere} \cup { Append(p, n) : p \in Paths, n \in Names }

\* a chain of symlinks longer than this is a loop (ELOOP)
Hops == Cardinality(Paths)

\* the entry n of the directory that c is: Fail when c is no directory
Entry(f, c, n) ==
  IF c = Fail \/ Node(f, c).kind # "dir" THEN Fail ELSE Append(c, n)

\* q with its own symlink followed through R, at most k more symlinks
FollowLast(f, R, k, q) ==
  IF q = Fail THEN Fail
  ELSE IF Node(f, q).kind = "link"
       THEN IF k = 0 THEN Fail ELSE R[k - 1, Node(f, q).target]
       ELSE q

\* path resolution in the file system f: R[k, p] is where p leads when every
\* component is resolved, the last one too, following at most k symlinks on
\* the way; Fail when a component is missing, is no directory, or loops
Resolution(f) ==
  LET R[k \in 0..Hops, p \in Places] ==
        FollowLast(f, R, k,
                   IF Len(p) = 1 THEN p
                   ELSE Entry(f, R[k, Front(p)], Last(p)))
  IN R

\* where p leads, symlinks followed
RPath(f, p) == Resolution(f)[Hops, p]

\* where the entry named by p lives: the last component is not followed
LPath(f, p) ==
  IF Len(p) = 1 THEN p ELSE Entry(f, RPath(f, Front(p)), Last(p))

NodeAt(f, q) == IF q = Fail THEN None ELSE Node(f, q)

\* fs::symlink_metadata: the entry itself
Lstat(f, p) == NodeAt(f, LPath(f, p))
\* fs::metadata: what the path leads to
Stat(f, p) == NodeAt(f, RPath(f, p))

\* Path::is_dir and Path::exists follow symlinks
is_dir(f, p) == Stat(f, p).kind = "dir"
exists(f, p) == Stat(f, p).kind \in {"dir", "file"}

\* lines 22-31: 0 a symlink, 1 something else, 2 symlink_metadata failed
SymlinkCode(k) ==
  IF k = "link" THEN 0 ELSE IF k \in {"dir", "file"} THEN 1 ELSE 2

is_symlink(f, p) == SymlinkCode(Lstat(f, p).kind)

read_link_ok(f, p) == Lstat(f, p).kind = "link"
read_link(f, p) == Lstat(f, p).target

\* size(): File::open(..).unwrap().metadata().unwrap().len()
size_ok(f, p) == Stat(f, p).kind \in {"dir", "file"}
size(f, p) == Stat(f, p).size

modified_time(f, p) == Stat(f, p).mtime

\* read_dir: Ok for a path that leads to a directory; the entries are listed
\* whether or not they can be inspected
read_dir_ok(f, p) == is_dir(f, p)
EntriesAt(f, c) == { n \in Names : Node(f, Append(c, n)).kind # "none" }
read_dir(f, p) == EntriesAt(f, RPath(f, p))

\* ------------------------------------------------- mutating std::fs calls
\* each yields [ok, fs, muts]: Err leaves the file system as it was; muts
\* lists the operations performed, with the place they really acted on
Err(f) == [ok |-> FALSE, fs |-> f, muts |-> <<>>]
Nop(f) == [ok |-> TRUE, fs |-> f, muts |-> <<>>]
Done(f, op, p, q) ==
  [ok |-> TRUE, fs |-> f, muts |-> << [op |-> op, path |-> p, at |-> q] >>]

RemoveFileAt(f, p, q) ==
  IF q # Fail /\ Node(f, q).kind \in {"file", "link"}
  THEN Done([f EXCEPT ![q] = None], "remove_file", p, q)
  ELSE Err(f)

\* fs::remove_file: unlink(2), the entry itself
fs_remove_file(f, p) == RemoveFileAt(f, p, LPath(f, p))

Below(q) == { r \in Paths : IsPrefix(q, r) }

RemoveDirAllAt(f, p, q) ==
  IF q = Fail THEN Err(f)
  ELSE IF Node(f, q).kind = "link"
       THEN Done([f EXCEPT ![q] = None], "remove_dir_all", p, q)
  ELSE IF Node(f, q).kind = "dir" /\ \A r \in Below(q) : f[r].kind # "inacc"
       THEN Done([r \in Paths |-> IF IsPrefix(q, r) THEN None ELSE f[r]],
                 "remove_dir_all", p, q)
  ELSE Err(f)

\* fs::remove_dir_all: a symlink is unlinked, never followed; a directory
\* goes with everything below it; an entry that cannot be inspected fails it
fs_remove_dir_all(f, p) == RemoveDirAllAt(f, p, LPath(f, p))

CreateAt(f, op, node, p, q) ==
  IF q # Fail /\ q \in Paths /\ Node(f, q).kind = "none"
  THEN Done([f EXCEPT ![q] = node], op, p, q)
  ELSE Err(f)

\* fs::create_dir: mkdir(2); EEXIST for any entry, a dangling symlink too
fs_create_dir(f, p) == CreateAt(f, "create_dir", Dir, p, LPath(f, p))

\* std::os::unix::fs::symlink: symlink(2); EEXIST for any entry
fs_symlink(f, tg, p) == CreateAt(f, "symlink", Link(tg), p, LPath(f, p))

CopyTo(f, from, d, q, now) ==
  IF from.kind = "file" /\ q # Fail /\ q \in Paths
     /\ Node(f, q).kind \in {"file", "none"}
  THEN Done([f EXCEPT ![q] = File(from.size, now)], "copy", d, q)
  ELSE Err(f)

\* fs::copy: the source must lead to a regular file; the destination is
\* opened for writing through symlinks, created or truncated, and gets the
\* time of the copy as its modification time
fs_copy(f, s, d, now) == CopyTo(f, Stat(f, s), d, RPath(f, d), now)

\* ------------------------------------------------------------- log lines
Removing(verb, p) == [verb |-> verb, src |-> <<>>, dst |-> p]
Copying(s, d) == [verb |-> "Copying", src |-> s, dst |-> d]

\* ------------------------------------------------------------- copy_file
\* lines 89-98, the body under `if !dry_run`
copy_file_effect(f, source, destination, now) ==
  IF is_symlink(f, source) = 0
  THEN fs_symlink(f, read_link(f, source), destination)
  ELSE fs_copy(f, source, destination, now)

\* copy_file without its dry-run gate
copy_file_ungated(f, source, destination, dry, now) ==
  copy_file_effect(f, source, destination, now)

\* lines 86-100; [ok, fs, muts]: ok = FALSE is the panic of an unwrap()
copy_file(f, source, destination, dry, now) ==
  IF ~dry
  THEN copy_file_effect(f, source, destination, now)
  ELSE Nop(f)

\* ------------------------------------------------- one loop iteration each
\* what one iteration did: the call's outcome, the lines it printed, and
\* whether it goes on to the recursive call
Res(r, lines, rec) ==
  [ok |-> r.ok, fs |-> r.fs, muts |-> r.muts, lines |-> lines,
   rec |-> rec /\ r.ok]

\* the change classifier with >= for >
Stale_ge(f, source_file, destination_file) ==
  \/ size(f, source_file) # size(f, destination_file)
  \/ modified_time(f, source_file) >= modified_time(f, destination_file)

\* backup, lines 155-161: overwrite when the sizes differ, else when the
\* source is strictly newer
Stale(f, source_file, destination_file) ==
  \/ size(f, source_file) # size(f, destination_file)
  \/ modified_time(f, source_file) > modified_time(f, destination_file)

\* remove_removed, lines 40-81: the branch taken for the destination entry
\* path whose SOURCE counterpart is src
remove_removed_branch(f, src, path) ==
  IF is_dir(f, path)
  THEN IF ~exists(f, src) THEN "remove_dir" ELSE "recurse"
  ELSE IF is_symlink(f, path) = 0
       THEN IF read_link_ok(f, src) THEN "keep" ELSE "remove_symlink"
  ELSE IF ~exists(f, src) THEN "remove_file"
  ELSE "keep"

\* remove_removed: what the branch prints and does
remove_removed_do(f, path, dry, branch) ==
  IF branch = "remove_dir"
  THEN Res(IF ~dry THEN fs_remove_dir_all(f, path) ELSE Nop(f),
           << Removing("Removing directory", path) >>, FALSE)
  ELSE IF branch = "recurse"
  THEN Res(IF read_dir_ok(f, path) THEN Nop(f) ELSE Err(f), <<>>, TRUE)
  ELSE IF branch = "remove_symlink"
  THEN Res(IF ~dry THEN fs_remove_dir_all(f, path) ELSE Nop(f),
           << Removing("Removing symlink", path) >>, FALSE)
  ELSE IF branch = "remove_file"
  THEN Res(IF ~dry THEN fs_remove_file(f, path) ELSE Nop(f),
           << Removing("Removing file", path) >>, FALSE)
  ELSE Res(Nop(f), <<>>, FALSE)

\* remove_removed, the body of the for loop for the entry n of destination
remove_removed_entry(f, source, destination, n, dry) ==
  remove_removed_do(f, Append(destination, n), dry,
    remove_removed_branch(f, Append(source, n), Append(destination, n)))

\* backup, lines 117-164: the branch taken for the source entry path whose
\* DESTINATION counterpart is dest
backup_branch(f, path, dest) ==
  IF is_dir(f, path)
  THEN IF ~exists(f, dest) THEN "create_dir" ELSE "recurse"
  ELSE IF is_symlink(f, path) = 0
       THEN IF is_symlink(f, dest) = 0
            THEN IF read_link(f, path) # read_link(f, dest)
                 THEN "copy" ELSE "keep"
            ELSE "copy"
  ELSE IF exists(f, dest)
       THEN IF ~size_ok(f, path) THEN "panic"
            ELSE IF Stale(f, path, dest) THEN "copy" ELSE "keep"
  ELSE "copy"

\* backup: what the branch prints and does
backup_do(f, path, dest, dry, now, branch) ==
  IF branch = "create_dir"
  THEN Res(IF ~dry THEN fs_create_dir(f, dest) ELSE Nop(f), <<>>, TRUE)
  ELSE IF branch = "recurse"
  THEN Res(Nop(f), <<>>, TRUE)
  ELSE IF branch = "copy"
  THEN Res(copy_file(f, path, dest, dry, now), << Copying(path, dest) >>, FALSE)
  ELSE IF branch = "panic"
  THEN Res(Err(f), <<>>, FALSE)
  ELSE Res(Nop(f), <<>>, FALSE)

\* backup, the body of the for loop for the entry n of source
backup_entry(f, source, destination, n, dry, now) ==
  backup_do(f, Append(source, n), Append(destination, n), dry, now,
            backup_branch(f, Append(source, n), Append(destination, n)))

\* ------------------------------------------------------------------ state
VARIABLES
  fs,        \* the file system: Paths -> node
  clock,     \* the wall clock
  order,     \* the order in which read_dir yields names
  run,       \* how many times the program has been started
  dry_run,   \* main's dry_run of the current run
  pc,        \* "idle", "prune", "pruned", "mirror", "done", "crashed"
  stack,     \* the active calls of remove_removed / backup, innermost last
  log,       \* the Removing / Copying lines printed by the current run
  muts,      \* the mutating calls performed by the current run
  fs0,       \* the file system when the current run started
  prev,      \* the previous run: its dry_run, final pc, log and fs0
  last       \* what the latest iteration of backup's loop saw and did

vars == << fs, clock, order, run, dry_run, pc, stack, log, muts, fs0, prev,
           last >>

Frame(source, destination, todo) ==
  [src |-> source, dst |-> destination, todo |-> todo]

\* the entries of a directory in listing order
Listing(f, p, ord) == SelectSeq(ord, LAMBDA n : n \in read_dir(f, p))

\* a for loop with no entry left returns to its caller
RECURSIVE Unwind(_)
Unwind(stk) ==
  IF stk = <<>> THEN stk
  ELSE IF stk[Len(stk)].todo = <<>> THEN Unwind(Front(stk))
  ELSE stk

NoObs ==
  [src |-> <<>>, dst |-> <<>>, regular |-> FALSE, existed |-> FALSE,
   ssize |-> 0, dsize |-> 0, smtime |-> 0, dmtime |-> 0, copied |-> FALSE]

\* ------------------------------------------------------ the initial trees
\* the entries a, b and a/a below a root; b is a plain sibling file or absent
Sibling == File(1, 0)
Leaves == {None, Inacc} \cup Files \cup Links

Tree(a, aa, b) == [r \in RelPaths |->
  IF r = <<"a">> THEN a ELSE IF r = <<"b">> THEN b ELSE aa]

NoTree == Tree(None, None, None)

Trees ==
  { Tree(a, None, b) : a \in Leaves, b \in {None, Sibling} }
  \cup { Tree(Dir, aa, b) : aa \in Leaves \cup {Dir}, b \in {None, Sibling} }

\* SOURCE tree s below S, DESTINATION tree d below D, either root possibly
\* missing; outside of both, the directory O with the file O/a
MkFs(sroot, s, droot, d) == [p \in Paths |->
  IF p = SRoot THEN sroot
  ELSE IF p = DRoot THEN droot
  ELSE IF p = ORoot THEN Dir
  ELSE IF p = <<"O", "a">> THEN File(1, 0)
  ELSE IF Len(p) > 3 THEN None
  ELSE IF p[1] = "S" THEN s[SubSeq(p, 2, Len(p))]
  ELSE d[SubSeq(p, 2, Len(p))]]

InitFs ==
  { MkFs(Dir, s, Dir, d) : s \in Trees, d \in Trees }
  \cup { MkFs(None, NoTree, Dir, d) : d \in Trees }
  \cup { MkFs(Dir, s, None, NoTree) : s \in Trees }

Orders == { << "a", "b" >>, << "b", "a" >> }

Init ==
  /\ fs \in InitFs
  /\ clock = ClockStart
  /\ order \in Orders
  /\ run = 0
  /\ dry_run = FALSE
  /\ pc = "idle"
  /\ stack = <<>>
  /\ log = <<>>
  /\ muts = <<>>
  /\ fs0 = fs
  /\ prev = [dry |-> FALSE, pc |-> "idle", log |-> <<>>, fs0 |-> fs]
  /\ last = NoObs

\* ---------------------------------------------------------------- actions
\* the state a loop iteration leaves: stk is the call stack it leaves when
\* nothing panicked
Leave(r, stk, running, finished) ==
  /\ fs' = r.fs
  /\ muts' = muts \o r.muts
  /\ log' = log \o r.lines
  /\ stack' = IF r.ok THEN stk ELSE <<>>
  /\ pc' = IF ~r.ok THEN "crashed"
           ELSE IF stk = <<>> THEN finished ELSE running

\* the stack once the innermost loop has taken its next entry
Advance(stk) == [stk EXCEPT ![Len(stk)].todo = Tail(stk[Len(stk)].todo)]

\* remove_removed is entered with the listing of DESTINATION, or panics
MainEnter(r, stk) ==
  /\ fs' = r.fs
  /\ muts' = r.muts
  /\ log' = <<>>
  /\ stack' = stk
  /\ pc' = IF ~(r.ok /\ read_dir_ok(r.fs, DRoot)) THEN "crashed"
           ELSE IF stk = <<>> THEN "pruned" ELSE "prune"

MainCreate(r) ==
  MainEnter(r, IF r.ok /\ read_dir_ok(r.fs, DRoot)
               THEN Unwind(<< Frame(SRoot, DRoot, Listing(r.fs, DRoot, order)) >>)
               ELSE <<>>)

\* main, lines 230-244: the program is started with SOURCE = S and
\* DESTINATION = D; the destination is created, then remove_removed begins
Main(d) ==
  /\ pc \in {"idle", "done", "crashed"}
  /\ run < MaxRuns
  /\ MainCreate(IF ~d /\ ~exists(fs, DRoot)
                THEN fs_create_dir(fs, DRoot) ELSE Nop(fs))
  /\ run' = run + 1
  /\ dry_run' = d
  /\ fs0' = fs
  /\ prev' = [dry |-> dry_run, pc |-> pc, log |-> log, fs0 |-> fs0]
  /\ last' = NoObs
  /\ UNCHANGED << clock, order >>

\* time passes between two runs
Tick ==
  /\ pc \in {"done", "crashed"}
  /\ run < MaxRuns
  /\ clock < MaxTime
  /\ clock' = clock + 1
  /\ UNCHANGED << fs, order, run, dry_run, pc, stack, log, muts, fs0, prev,
                  last >>

PruneLeave(top, n, r) ==
  Leave(r,
        IF r.rec
        THEN Unwind(Append(Advance(stack),
                      Frame(Append(top.src, n), Append(top.dst, n),
                            Listing(r.fs, Append(top.dst, n), order))))
        ELSE Unwind(Advance(stack)),
        "prune", "pruned")

PruneTop(top) ==
  PruneLeave(top, Head(top.todo),
             remove_removed_entry(fs, top.src, top.dst, Head(top.todo), dry_run))

\* remove_removed, lines 37-82: one iteration of the innermost for loop
PruneEntry ==
  /\ pc = "prune"
  /\ PruneTop(stack[Len(stack)])
  /\ UNCHANGED << clock, order, run, dry_run, fs0, prev, last >>

\* main, lines 246-248, and backup, lines 108-113: the mirror pass begins,
\* and returns at once when SOURCE cannot be listed
StartMirror ==
  /\ pc = "pruned"
  /\ Leave(Res(Nop(fs), <<>>, FALSE),
           IF read_dir_ok(fs, SRoot)
           THEN Unwind(<< Frame(SRoot, DRoot, Listing(fs, SRoot, order)) >>)
           ELSE <<>>,
           "mirror", "done")
  /\ UNCHANGED << clock, order, run, dry_run, fs0, prev, last >>

\* what backup's loop saw of the pair (path, dest) and whether it called
\* copy_file
Observe(f, path, dest, r) ==
  [src |-> path, dst |-> dest,
   regular |-> Lstat(f, path).kind = "file",
   existed |-> exists(f, dest),
   ssize |-> size(f, path), dsize |-> size(f, dest),
   smtime |-> modified_time(f, path), dmtime |-> modified_time(f, dest),
   copied |-> r.lines # <<>>]

MirrorLeave(path, dest, r) ==
  /\ Leave(r,
           IF r.rec /\ read_dir_ok(r.fs, path)
           THEN Unwind(Append(Advance(stack),
                         Frame(path, dest, Listing(r.fs, path, order))))
           ELSE Unwind(Advance(stack)),
           "mirror", "done")
  /\ last' = Observe(fs, path, dest, r)

MirrorTop(top) ==
  MirrorLeave(Append(top.src, Head(top.todo)), Append(top.dst, Head(top.todo)),
              backup_entry(fs, top.src, top.dst, Head(top.todo), dry_run, clock))

\* backup, lines 114-166: one iteration of the innermost for loop
MirrorEntry ==
  /\ pc = "mirror"
  /\ MirrorTop(stack[Len(stack)])
  /\ UNCHANGED << clock, order, run, dry_run, fs0, prev >>

Next ==
  \/ \E d \in BOOLEAN : Main(d)
  \/ Tick
  \/ PruneEntry
  \/ StartMirror
  \/ MirrorEntry

Spec == Init /\ [][Next]_vars


\* ----------------------------------------------------------------- claims
Terminal == pc \in {"done", "crashed"}

Src(r) == << "S" >> \o r
Dst(r) == << "D" >> \o r

Accessible(f) == \A p \in Paths : f[p].kind # "inacc"
NoLinks(f) == \A p \in Paths : f[p].kind # "link"
\* no file is dated later than the clock of the first run
NoFuture(f) == \A p \in Paths : f[p].mtime <= ClockStart

\* the destination node d reflects the source node s
Mirrors(s, d) ==
  /\ d.kind = s.kind
  /\ s.kind = "file" => (d.size = s.size /\ ~(s.mtime > d.mtime))
  /\ s.kind = "link" => d.target = s.target

Converged(f) ==
  /\ \A r \in RelPaths : Mirrors(f[Src(r)], f[Dst(r)])
  /\ \A p \in Paths : Len(p) > 3 => f[p].kind = "none"

\* the pair of paths the innermost loop takes next
CurSrc == Append(stack[Len(stack)].src, Head(stack[Len(stack)].todo))
CurDst == Append(stack[Len(stack)].dst, Head(stack[Len(stack)].todo))

\* C1: a non-dry run over a SOURCE tree and any DESTINATION tree ends
\* without crashing and leaves DESTINATION with exactly the entries of
\* SOURCE, every file fresh and every symlink with the source's target
\* (stated here for trees of plain directories and files, none of them
\* dated in the future).
C1_Convergence ==
  (/\ ~dry_run /\ Terminal
   /\ fs0[SRoot].kind = "dir"
   /\ Accessible(fs0) /\ NoLinks(fs0) /\ NoFuture(fs0))
    => (pc = "done" /\ Converged(fs))

\* C2: a dry run performs no create-directory, delete, copy or
\* symlink-create, so the file system stays what it was when the run began.
C2_DryRunNoMutation == dry_run => (fs = fs0 /\ muts = <<>>)

\* a dry run that completed and printed both a Removing and a Copying line
C2_Witness ==
  /\ dry_run
  /\ pc = "done"
  /\ \E i \in 1..Len(log) : log[i].verb = "Copying"
  /\ \E i \in 1..Len(log) : log[i].verb # "Copying"

\* C3: after a non-dry run, where SOURCE has a directory and DESTINATION had
\* a regular file at the same relative path, DESTINATION has a directory.
C3_KindReplaced ==
  (~dry_run /\ Terminal /\ Accessible(fs0))
    => \A r \in RelPaths :
         (fs0[Src(r)].kind = "dir" /\ fs0[Dst(r)].kind = "file")
           => fs[Dst(r)].kind = "dir"

\* C4: after a non-dry run, where SOURCE has a symlink (here: one that does
\* not lead to a directory) and DESTINATION held a symlink with a different
\* target, the run has not crashed and DESTINATION holds a symlink with the
\* source's target.
C4_SymlinkFidelity ==
  (~dry_run /\ Terminal /\ Accessible(fs0))
    => \A r \in RelPaths :
         (/\ fs0[Src(r)].kind = "link"
          /\ ~is_dir(fs0, Src(r))
          /\ fs0[Dst(r)].kind = "link"
          /\ fs0[Src(r)].target # fs0[Dst(r)].target)
           => (pc = "done" /\ fs[Dst(r)] = fs0[Src(r)])

\* C5: a dry run and a real run from the same trees, under the same listing
\* order, print the same sequence of Removing / Copying lines.
C5_SameTranscript ==
  (/\ prev.dry /\ prev.pc = "done"
   /\ ~dry_run /\ pc = "done"
   /\ prev.fs0 = fs0)
    => log = prev.log

\* C6: once a non-dry run has completed, a second run with SOURCE unchanged
\* prints no Copying line.
C6_Idempotent ==
  (/\ ~prev.dry /\ prev.pc = "done"
   /\ Terminal
   /\ Accessible(prev.fs0) /\ NoLinks(prev.fs0)
   /\ \A p \in Paths : p[1] # "D" => fs0[p] = prev.fs0[p])
    => \A i \in 1..Len(log) : log[i].verb # "Copying"

\* C7: with SOURCE missing and DESTINATION an existing directory, the run
\* does not crash and changes nothing in DESTINATION.
C7_MissingSourceNoOp ==
  (fs0[SRoot].kind = "none" /\ fs0[DRoot].kind = "dir")
    => (pc # "crashed" /\ fs = fs0)

\* C8: an entry that cannot be inspected is skipped: the prune pass never
\* takes it for a regular file to remove, and the run does not abort on it.
C8_SoftFail ==
  (fs0[SRoot].kind = "dir" /\ fs0[DRoot].kind = "dir" /\ NoLinks(fs0))
    => /\ \A i \in 1..Len(log) :
            log[i].verb = "Removing file"
              => Lstat(fs0, log[i].dst).kind # "inacc"
       /\ (\A r \in RelPaths : fs0[Dst(r)].kind \in {"none", "inacc"})
            => pc # "crashed"

\* C9: in the mirror pass, for a SOURCE regular file, copy_file is called
\* when DESTINATION has no counterpart, and otherwise exactly when the sizes
\* differ or the sizes are equal and the source is strictly newer.
C9_ChangeClassifier ==
  [][ (pc = "mirror" /\ Lstat(fs, CurSrc).kind = "file")
        => IF exists(fs, CurDst)
           THEN IF \/ size(fs, CurSrc) # size(fs, CurDst)
                   \/ /\ size(fs, CurSrc) = size(fs, CurDst)
                      /\ modified_time(fs, CurSrc) > modified_time(fs, CurDst)
                THEN log' = Append(log, Copying(CurSrc, CurDst))
                ELSE log' = log
           ELSE log' = Append(log, Copying(CurSrc, CurDst)) ]_vars

\* the loop met a regular file whose counterpart had the same size and was
\* strictly older, and called copy_file
C9_Witness ==
  /\ last.regular /\ last.existed
  /\ last.ssize = last.dsize
  /\ last.smtime > last.dmtime
  /\ last.copied

\* C10: every mutation acts on a node inside DESTINATION, reached without
\* going through a symlink; SOURCE and everything outside DESTINATION stay
\* as they were.
C10_Confined ==
  /\ \A p \in Paths : p[1] # "D" => fs[p] = fs0[p]
  /\ \A i \in 1..Len(muts) :
       muts[i].at = muts[i].path /\ IsPrefix(DRoot, muts[i].at)

====
